---- MODULE Spec2Model ----
(***************************************************************************)
(* Carpool accounting (ics2csv.py): event parsing, the ledger merge        *)
(* (updatedata), the balance (carpool_account), destination matching       *)
(* (find_dest) and the run of the script as a whole.                       *)
(*                                                                         *)
(* Time.  A datetime is a record [i |-> instant, o |-> utc offset], both   *)
(* counted in slots of a third of a day: slot 0 of a day is 04:00, its     *)
(* morning (hour < 12), slots 1 and 2 are 12:00 and 20:00.  Two aware      *)
(* datetimes are equal, and are the same dictionary key, when their        *)
(* instants are equal; .date() and .hour are taken on the local time       *)
(* i + o.                                                                  *)
(*                                                                         *)
(* Text.  A string is a sequence of pieces, each a run of characters of    *)
(* one class: letters, digits, white space or punctuation.                 *)
(***************************************************************************)
EXTENDS Integers, Sequences, FiniteSets, TLC

VARIABLES
    file,       \* the persisted ledger: [exists, data], data a sequence of [k, v]
    today,      \* datetime.date.today(), in days
    newevents,  \* the feed handed to the last updatedata call
    prev,       \* the persisted ledger before the last updatedata call
    allevents,  \* the ledger returned by the last updatedata call
    prevday,    \* today at the call before the last one
    lastop,     \* "none", "run" or "again": the last call repeated the one before
    runs,       \* updatedata calls made so far
    event,      \* the calendar event handed to icsparse_event
    parsed,     \* what icsparse_event returned or raised
    balance,    \* the balance carpool_account has built so far
    applied,    \* ledger events carpool_account has gone through
    slack,      \* the magnitudes of all the float results so far, added up
    before,     \* the exact sum of the balances before the last event
    step,       \* the magnitudes of the float results of the last event
    lastev,     \* the kind of the last event applied, or "TypeError"
    lastevents, \* the list handed to find_dest
    found,      \* what find_dest returned or raised
    cal,        \* the calendar of a run of the script
    pc,         \* where the run of the script is
    err         \* the exception that ended the run

mvars == <<file, today, newevents, prev, allevents, prevday, lastop, runs>>
pvars == <<event, parsed>>
bvars == <<balance, applied, slack, before, step, lastev>>
dvars == <<lastevents, found>>
rvars == <<cal, pc, err>>
vars == <<mvars, pvars, bvars, dvars, rvars>>

----------------------------------------------------------------------------
(* Bounds *)
MaxInst == 5       \* instants are 0 .. MaxInst
MaxAge == 1        \* maxage of updatedata, in days
MaxPrev == 2       \* entries of a previous ledger drawn by InitMerge
MaxNew == 1        \* entries of the feed merged into a drawn ledger
MaxFeed == 2       \* entries of a feed in a history of runs
MaxRuns == 2       \* updatedata calls in a history
MaxTitle == 7      \* pieces of an event title
MaxPass == 2       \* passengers of a carpool
MaxLedger == 2     \* ledger events carpool_account goes through
MaxEvents == 3     \* events handed to find_dest
MaxCal == 2        \* events of a calendar

SlotsPerDay == 3
Offsets == {0, 1}
Instants == 0 .. MaxInst
Times == [i : Instants, o : Offsets]

----------------------------------------------------------------------------
(* datetime *)

\* datetime.date(): the local calendar day
Date(k) == (k.i + k.o) \div SlotsPerDay

\* (n - k.date()).days
AgeDays(n, k) == n - Date(k)

\* str(k): the local time followed by the utc offset
Str(k) == [local |-> k.i + k.o, off |-> k.o]

\* datetime.datetime.fromisoformat(s)
FromIso(s) == [i |-> s.local - s.off, o |-> s.off]

----------------------------------------------------------------------------
(* OrderedDict keyed by datetime: a sequence of [k, v], one per instant *)

HasKey(d, k) == \E j \in 1 .. Len(d) : d[j].k.i = k.i

\* d[k] for a key the dictionary holds
DictGet(d, k) == d[CHOOSE j \in 1 .. Len(d) : d[j].k.i = k.i].v

\* d[k] = v: an equal key keeps its place and its first key object
DictSet(d, k, v) ==
    IF HasKey(d, k)
    THEN [j \in 1 .. Len(d) |->
            IF d[j].k.i = k.i THEN [k |-> d[j].k, v |-> v] ELSE d[j]]
    ELSE Append(d, [k |-> k, v |-> v])

----------------------------------------------------------------------------
(* Text: pieces and their character classes *)

Pieces == {"Carpool", "transfer", "peter", "10", " ", "+"}

\* str.lower() of a piece
Lower(p) == IF p = "Carpool" THEN "carpool" ELSE p

LowerAll(s) == [j \in 1 .. Len(s) |-> Lower(s[j])]

IsSpace(p) == p = " "
IsLetters(p) == p \in {"Carpool", "carpool", "transfer", "peter"}
IsDigits(p) == p = "10"

\* line 77: RE_TOPIC_SPLIT_CARPOOL = '[^a-zA-Z]+', line 78:
\* RE_TOPIC_SPLIT_TRANSFER = '[\W]+'
IsSep(re, p) ==
    IF re = "carpool" THEN ~IsLetters(p)
    ELSE ~(IsLetters(p) \/ IsDigits(p))

\* line 139: the value of re.UNICODE, which split() takes as its maxsplit
ReUnicode == 32

RECURSIVE DropSeps(_, _)
DropSeps(re, s) ==
    IF s # <<>> /\ IsSep(re, Head(s)) THEN DropSeps(re, Tail(s)) ELSE s

\* pattern.split(string, maxsplit): the strings between the first maxsplit
\* runs of separators, the rest of the string whole
RECURSIVE ReSplit(_, _, _, _)
ReSplit(re, s, cur, left) ==
    IF s = <<>> THEN <<cur>>
    ELSE IF left > 0 /\ IsSep(re, Head(s))
         THEN <<cur>> \o ReSplit(re, DropSeps(re, s), <<>>, left - 1)
         ELSE ReSplit(re, Tail(s), Append(cur, Head(s)), left)

\* lines 139-149: lower, split, drop the empty words
icsparse_event_topic_split(topic, re) ==
    SelectSeq(ReSplit(re, LowerAll(topic), <<>>, ReUnicode),
              LAMBDA w : w # <<>>)

\* str.split(): the words between runs of white space
RECURSIVE StrSplit(_, _)
StrSplit(s, cur) ==
    IF s = <<>> THEN (IF cur = <<>> THEN <<>> ELSE <<cur>>)
    ELSE IF IsSpace(Head(s))
         THEN (IF cur = <<>> THEN <<>> ELSE <<cur>>) \o StrSplit(Tail(s), <<>>)
         ELSE StrSplit(Tail(s), Append(cur, Head(s)))

\* 'word' in text, for a text made of pieces
Contains(text, word) == \E j \in 1 .. Len(text) : text[j] = word

----------------------------------------------------------------------------
(* icsparse_event_get_location *)

\* lines 54-57: the configured locations, in their order, and the defaults
CFG_VALIDAMLOCS == <<"nieuwegein", "houten">>
CFG_VALIDPMLOCS == <<"b7", "houten">>
CFG_DEFAULTAMLOC == "UNKNOWN-EVERDINGEN"
CFG_DEFAULTPMLOC == "UNKNOWN-B7"
\* line 53
CFG_TRIPCOST == 16

LocPieces == {"Houten", "nieuwegein", "b7", "home"}
LowerLoc(p) == IF p = "Houten" THEN "houten" ELSE p

\* time.dt.hour < 12
IsMorning(k) == (k.i + k.o) % SlotsPerDay = 0

\* lines 165-171: the first valid location found in the text, or the default
RECURSIVE FirstValid(_, _, _)
FirstValid(validlocs, loc, locdefault) ==
    IF validlocs = <<>> THEN locdefault
    ELSE IF Contains(loc, Head(validlocs)) THEN Head(validlocs)
         ELSE FirstValid(Tail(validlocs), loc, locdefault)

\* lines 151-171, for a LOCATION that is a string
icsparse_event_get_location(location, time) ==
    LET loc == [j \in 1 .. Len(location) |-> LowerLoc(location[j])]
    IN  IF IsMorning(time)
        THEN FirstValid(CFG_VALIDAMLOCS, loc, CFG_DEFAULTAMLOC)
        ELSE FirstValid(CFG_VALIDPMLOCS, loc, CFG_DEFAULTPMLOC)

----------------------------------------------------------------------------
(* icsparse_event *)

Raise(e) == [ok |-> FALSE, err |-> e]
Return(v) == [ok |-> TRUE, val |-> v]

\* a Python str, as a value of the ledger
PyStr(tok) == [py |-> "str", tok |-> tok]
\* a Python number
PyNum(n) == [py |-> "num", n |-> n]

\* lines 80-113.  c = [summary, location, dtstart, transp]; a LOCATION the
\* event lacks is None, whose .lower() raises AttributeError
icsparse_event(c) ==
    LET first == StrSplit(c.summary, <<>>)
    IN  IF first = <<>> THEN Raise("IndexError")
        ELSE LET event_type == LowerAll(first[1])
             IN  IF Contains(event_type, "carpool")
                 THEN LET words == icsparse_event_topic_split(c.summary, "carpool")
                      IN  IF Len(words) < 2 THEN Raise("ValueError")
                          ELSE IF c.location.none THEN Raise("AttributeError")
                          ELSE Return([type |-> "carpool",
                                       driver |-> words[2],
                                       passengers |-> SubSeq(words, 3, Len(words)),
                                       origin |-> icsparse_event_get_location(
                                                      c.location.text, c.dtstart),
                                       tripcost |-> CFG_TRIPCOST])
                 ELSE IF Contains(event_type, "transfer")
                 THEN LET words == icsparse_event_topic_split(c.summary, "transfer")
                      IN  IF Len(words) - 1 # 3 THEN Raise("ValueError")
                          ELSE Return([type |-> "transfer",
                                       debtor |-> words[2],
                                       creditor |-> words[3],
                                       amount |-> PyStr(words[4])])
                 ELSE Raise("ValueError")

----------------------------------------------------------------------------
(* Python floats.  A number is hi * Base + lo units of 2^-51, 0 <= lo <     *)
(* Base: every binary64 value between 2 and 256 in magnitude, and every sum *)
(* and difference of such values, is a whole number of these units.         *)

Base == 268435456          \* 2^28
UnitsPerOne == 8388608     \* 2^51 / Base
ExactBelow == 33554432     \* 2^53 / Base: below it every unit is a float

Zero == [hi |-> 0, lo |-> 0]
FromInt(n) == [hi |-> n * UnitsPerOne, lo |-> 0]

\* exact sum and negation
NumAdd(a, b) ==
    LET l == a.lo + b.lo
    IN  [hi |-> a.hi + b.hi + (l \div Base), lo |-> l % Base]
NumNeg(a) ==
    IF a.lo = 0 THEN [hi |-> 0 - a.hi, lo |-> 0]
    ELSE [hi |-> 0 - a.hi - 1, lo |-> Base - a.lo]
NumAbs(a) == IF a.hi < 0 THEN NumNeg(a) ELSE a
NumLeq(a, b) == a.hi < b.hi \/ (a.hi = b.hi /\ a.lo <= b.lo)

\* the spacing of the floats around a magnitude m >= 0, in units
RECURSIVE GridFrom(_, _)
GridFrom(h, g) ==
    IF h < ExactBelow THEN g ELSE GridFrom(h \div 2, 2 * g)
Grid(m) == GridFrom(m.hi, 1)

\* the float nearest to m + rem/n (0 <= rem < n), ties to even
RoundMagnitude(m, rem, n) ==
    LET g == Grid(m)
        r == m.lo % g
        down == [hi |-> m.hi, lo |-> m.lo - r]
        up == NumAdd(down, [hi |-> 0, lo |-> g])
        odd == ((m.lo - r) \div g) % 2 = 1
        \* twice the remainder against the grid: 2 * (r + rem/n) ? g
        twice == 2 * (r * n + rem)
        whole == g * n
    IN  IF twice > whole \/ (twice = whole /\ odd) THEN up ELSE down

\* round an exact number to a float
Round(a) ==
    IF a.hi < 0 THEN NumNeg(RoundMagnitude(NumNeg(a), 0, 1))
    ELSE RoundMagnitude(a, 0, 1)

\* float + float, float - float
FloatAdd(a, b) == Round(NumAdd(a, b))
FloatSub(a, b) == Round(NumAdd(a, NumNeg(b)))

\* c / n is a number of this model when it is at least 2, or exact: a smaller
\* quotient that is not exact has bits below the unit
HalfBase == 16384          \* 2^14, Base = HalfBase * HalfBase
InUnits(c, n) ==
    \/ c >= 2 * n
    \/ (((((c * UnitsPerOne) % n) * HalfBase) % n) * HalfBase) % n = 0

\* int / int, true division: c / n for 0 <= c < 256, 1 <= n < 2^17 with
\* InUnits(c, n); the quotient by long division, then rounded
TrueDiv(c, n) ==
    LET a == FromInt(c)
        x == (a.hi % n) * HalfBase
        y == (x % n) * HalfBase
    IN  RoundMagnitude([hi |-> a.hi \div n,
                        lo |-> (x \div n) * HalfBase + (y \div n)],
                       y % n, n)

----------------------------------------------------------------------------
(* carpool_account *)

\* the balance is a dict: a sequence of [p, x] in the order of first insertion

HasPerson(bal, p) == \E j \in 1 .. Len(bal) : bal[j].p = p

\* balance.get(p, 0)
BalanceGet(bal, p) ==
    IF HasPerson(bal, p)
    THEN bal[CHOOSE j \in 1 .. Len(bal) : bal[j].p = p].x
    ELSE Zero

\* balance[p] = x: a person the dict holds keeps its place
BalanceSet(bal, p, x) ==
    IF HasPerson(bal, p)
    THEN [j \in 1 .. Len(bal) |-> IF bal[j].p = p THEN [p |-> p, x |-> x] ELSE bal[j]]
    ELSE Append(bal, [p |-> p, x |-> x])

\* a variant that credits the driver the whole trip cost, own share included
DriverCreditWhole(old, tripcost, npers) == FloatAdd(old, FromInt(tripcost))
\* line 185: balance.get(driver, 0) + tripcost - tripcost / npers
DriverCredit(old, tripcost, npers) ==
    FloatSub(FloatAdd(old, FromInt(tripcost)), TrueDiv(tripcost, npers))

\* lines 186-187: each passenger's share, in the order of the list
RECURSIVE ChargePassengers(_, _, _)
ChargePassengers(bal, passengers, share) ==
    IF passengers = <<>> THEN bal
    ELSE ChargePassengers(
             BalanceSet(bal, Head(passengers),
                        FloatSub(BalanceGet(bal, Head(passengers)), share)),
             Tail(passengers), share)

\* lines 183-190: one event of the ledger; int + str raises TypeError
AccountEvent(bal, v) ==
    IF v.type = "carpool"
    THEN LET npers == 1 + Len(v.passengers)
             paid == BalanceSet(bal, v.driver,
                         DriverCredit(BalanceGet(bal, v.driver),
                                      v.tripcost, npers))
         IN  Return(ChargePassengers(paid, v.passengers,
                                     TrueDiv(v.tripcost, npers)))
    ELSE IF v.amount.py # "num" THEN Raise("TypeError")
    ELSE LET a == FromInt(v.amount.n)
             credited == BalanceSet(bal, v.creditor,
                             FloatAdd(BalanceGet(bal, v.creditor), a))
         IN  Return(BalanceSet(credited, v.debtor,
                               FloatSub(BalanceGet(credited, v.debtor), a)))

\* lines 180-192: the events in the ledger's order, from an empty balance
RECURSIVE AccountFrom(_, _)
AccountFrom(bal, events) ==
    IF events = <<>> THEN Return(bal)
    ELSE LET r == AccountEvent(bal, Head(events).v)
         IN  IF r.ok THEN AccountFrom(r.val, Tail(events)) ELSE r
carpool_account(events) == AccountFrom(<<>>, events)

\* lines 186-187: the float results of the passengers' part, in order: each
\* passenger's tripcost / npers and new balance
RECURSIVE PassengerResults(_, _, _)
PassengerResults(bal, passengers, share) ==
    IF passengers = <<>> THEN <<>>
    ELSE LET r == FloatSub(BalanceGet(bal, Head(passengers)), share)
         IN  <<share, r>> \o
             PassengerResults(BalanceSet(bal, Head(passengers), r),
                              Tail(passengers), share)

\* lines 185-190: the results of the floating-point operations of one event,
\* in the order the code computes them
Results(bal, v) ==
    IF v.type = "carpool"
    THEN LET npers == 1 + Len(v.passengers)
             share == TrueDiv(v.tripcost, npers)
             gross == FloatAdd(BalanceGet(bal, v.driver), FromInt(v.tripcost))
             net == FloatSub(gross, share)
         IN  <<gross, share, net>> \o
             PassengerResults(BalanceSet(bal, v.driver, net), v.passengers, share)
    ELSE LET a == FromInt(v.amount.n)
             c == FloatAdd(BalanceGet(bal, v.creditor), a)
             d == FloatSub(BalanceGet(BalanceSet(bal, v.creditor, c), v.debtor), a)
         IN  <<c, d>>

----------------------------------------------------------------------------
(* Sums of balances and rounding budgets.  The program computes neither:    *)
(* they measure what carpool_account returns.                               *)

\* the sum of the floats the balance holds, as a real number: no rounding
RECURSIVE ExactSum(_)
ExactSum(bal) ==
    IF bal = <<>> THEN Zero
    ELSE NumAdd(ExactSum(SubSeq(bal, 1, Len(bal) - 1)), bal[Len(bal)].x)

\* the same sum added up in floating point, from 0, in the dict's order,
\* rounded after each addition
RECURSIVE PySum(_)
PySum(bal) ==
    IF bal = <<>> THEN Zero
    ELSE FloatAdd(PySum(SubSeq(bal, 1, Len(bal) - 1)), bal[Len(bal)].x)

\* the results of the additions of PySum
PartialSums(bal) == [j \in 1 .. Len(bal) |-> PySum(SubSeq(bal, 1, j))]

\* a total of magnitudes: q * 2^53 + hi * Base + lo units, hi < ExactBelow
NoSlack == [q |-> 0, hi |-> 0, lo |-> 0]
WideAdd(w, m) ==
    LET l == w.lo + m.lo
        h == w.hi + m.hi + (l \div Base)
    IN  [q |-> w.q + (h \div ExactBelow), hi |-> h % ExactBelow, lo |-> l % Base]

\* w plus the magnitudes of the float results rs
RECURSIVE AddMagnitudes(_, _)
AddMagnitudes(w, rs) ==
    IF rs = <<>> THEN w
    ELSE AddMagnitudes(WideAdd(w, NumAbs(Head(rs))), Tail(rs))

\* |x| <= 2^-53 * w: the rounding of the operations whose results w totals,
\* each off by at most 2^-53 of its result
WithinRounding(x, w) == NumAbs(x).hi = 0 /\ NumAbs(x).lo <= w.q


----------------------------------------------------------------------------
(* storedata, updatedata *)

\* json.dump({str(k): v for k, v in obj.items()}): the file's text, in order
storedata(obj) ==
    [exists |-> TRUE, corrupt |-> FALSE,
     data |-> [j \in 1 .. Len(obj) |-> [s |-> Str(obj[j].k), v |-> obj[j].v]]]

NoFile == [exists |-> FALSE, corrupt |-> FALSE, data |-> <<>>]

\* a variant with >= for >: the day at exactly maxage counted as old
IsOldInclusive(n, k, maxage) == AgeDays(n, k) >= maxage
\* line 255: (n - edate.date()).days > maxage
IsOld(n, k, maxage) == AgeDays(n, k) > maxage

\* a variant that applies no window to the feed
InWindowAlways(n, k, maxage) == TRUE
\* line 260: (n - k.date()).days <= maxage
InWindow(n, k, maxage) == AgeDays(n, k) <= maxage

\* lines 253-256: the stored events older than maxage days, in the file's order
RECURSIVE KeepOld(_, _, _, _)
KeepOld(e, n, maxage, acc) ==
    IF e = <<>> THEN acc
    ELSE LET edate == FromIso(Head(e).s)
         IN  KeepOld(Tail(e), n, maxage,
                     IF IsOld(n, edate, maxage)
                     THEN DictSet(acc, edate, Head(e).v) ELSE acc)

\* lines 259-261: the new events of the window, in the feed's order
RECURSIVE AddNew(_, _, _, _)
AddNew(ne, n, maxage, acc) ==
    IF ne = <<>> THEN acc
    ELSE AddNew(Tail(ne), n, maxage,
                IF InWindow(n, Head(ne).k, maxage)
                THEN DictSet(acc, Head(ne).k, Head(ne).v) ELSE acc)

\* lines 245-264: the ledger updatedata builds from a readable file (or none)
updatedata(f, ne, n, maxage) ==
    IF ~f.exists THEN ne
    ELSE AddNew(ne, n, maxage, KeepOld(f.data, n, maxage, <<>>))

\* loaddata: the stored text back as a dictionary keyed by datetime
RECURSIVE LoadInto(_, _)
LoadInto(e, acc) ==
    IF e = <<>> THEN acc
    ELSE LoadInto(Tail(e), DictSet(acc, FromIso(Head(e).s), Head(e).v))
loaddata(f) == LoadInto(f.data, <<>>)

----------------------------------------------------------------------------
(* normalize_ics *)

\* lines 64-74: the events that are not transparent, keyed by DTSTART; an
\* exception of icsparse_event ends the walk
RECURSIVE NormalizeFrom(_, _)
NormalizeFrom(events, walk) ==
    IF walk = <<>> THEN Return(events)
    ELSE LET c == Head(walk)
         IN  IF c.transp THEN NormalizeFrom(events, Tail(walk))
             ELSE LET r == icsparse_event(c)
                  IN  IF r.ok
                      THEN NormalizeFrom(DictSet(events, c.dtstart, r.val),
                                         Tail(walk))
                      ELSE r
normalize_ics(walk) == NormalizeFrom(<<>>, walk)

----------------------------------------------------------------------------
(* find_dest.  An event is [driver, passengers, origin, time]. *)

\* sorted(lastevents, key=lambda event: event[3]): stable
RECURSIVE InsertByTime(_, _)
InsertByTime(sorted, e) ==
    IF sorted = <<>> THEN <<e>>
    ELSE IF Head(sorted).time.i <= e.time.i
         THEN <<Head(sorted)>> \o InsertByTime(Tail(sorted), e)
         ELSE <<e>> \o sorted
RECURSIVE SortByTime(_)
SortByTime(es) ==
    IF es = <<>> THEN <<>>
    ELSE InsertByTime(SortByTime(SubSeq(es, 1, Len(es) - 1)), es[Len(es)])

\* lines 325-326: (last - first).days + 2
NumberDays(sorted) ==
    ((sorted[Len(sorted)].time.i - sorted[1].time.i) \div SlotsPerDay) + 2

\* lines 327-328: the days from the day before the first event
DayList(sorted) ==
    [x \in 1 .. NumberDays(sorted) |-> Date(sorted[1].time) - 1 + (x - 1)]

\* lines 334, 338: the IDs of a driver's events on a day, ascending
CarpoolSet(sorted, day, driver) ==
    SelectSeq([j \in 1 .. Len(sorted) |-> j],
              LAMBDA j : Date(sorted[j].time) = day /\ sorted[j].driver = driver)

\* lines 333-344, 364-365: what is appended to the event with this ID
Appended(sorted, id) ==
    LET day == Date(sorted[id].time)
        set == CarpoolSet(sorted, day, sorted[id].driver)
        start == sorted[set[1]].origin
        dest == sorted[set[2]].origin
    IN  IF (\E x \in 1 .. NumberDays(sorted) : DayList(sorted)[x] = day)
           /\ Len(set) = 2
        THEN (IF id = set[1] THEN << <<start, dest>> >> ELSE << <<dest, start>> >>)
        ELSE <<>>

\* lines 324-367; sorted_events[-1] of an empty list raises IndexError
find_dest(es) ==
    IF es = <<>> THEN Raise("IndexError")
    ELSE LET sorted == SortByTime(es)
         IN  Return([id \in 1 .. Len(sorted) |->
                        [ev |-> sorted[id], appended |-> Appended(sorted, id)]])

----------------------------------------------------------------------------
(* Inputs *)

Values == {"v1", "v2"}

DistinctInstants(ks) ==
    \A a, b \in 1 .. Len(ks) : a # b => ks[a].i # ks[b].i

KeySeqs(n) ==
    UNION {{ks \in [1 .. m -> Times] : DistinctInstants(ks)} : m \in 0 .. n}

PrevKeySeqs == KeySeqs(MaxPrev)
NewKeySeqs == KeySeqs(MaxNew)
FeedKeySeqs == KeySeqs(MaxFeed)

\* an OrderedDict whose events all carry the payload v
WithValue(ks, v) == [j \in 1 .. Len(ks) |-> [k |-> ks[j], v |-> v]]

\* the day of the run: the events span the ages maxage + 1, maxage and less
StartDay == MaxAge + 1

SeqsUpTo(S, n) == UNION {[1 .. m -> S] : m \in 0 .. n}

Titles == SeqsUpTo(Pieces, MaxTitle)

People == {<<"peter">>, <<"martin">>, <<"wolfgang">>}
Amounts == {PyNum(10), PyNum(60), PyStr(<<"10">>)}

Drivers == {<<"peter">>, <<"martin">>}
Carpools ==
    {[type |-> "carpool", driver |-> d, passengers |-> ps, origin |-> "houten",
      tripcost |-> CFG_TRIPCOST] :
        d \in Drivers,
        ps \in {q \in SeqsUpTo(People, MaxPass) :
                   InUnits(CFG_TRIPCOST, 1 + Len(q))}}
Transfers ==
    {[type |-> "transfer", debtor |-> d, creditor |-> c, amount |-> a] :
        d \in People, c \in People, a \in Amounts}

Origins == {"nieuwegein", "houten"}
DestEvents ==
    {[driver |-> d, passengers |-> <<>>, origin |-> o, time |-> t] :
        d \in Drivers, o \in Origins, t \in Times}

NoLocation == [none |-> TRUE, text |-> <<>>]
Location(text) == [none |-> FALSE, text |-> text]

\* the titles of a calendar: a carpool, a transfer, and the ones that fail
RunTitles ==
    { <<"Carpool", " ", "peter", "+", "peter">>,
      <<"transfer", " ", "peter", " ", "peter", " ", "10">>,
      <<"peter", " ", "10">>,
      <<"Carpool">>,
      <<" ">> }
RunTimes == {[i |-> 0, o |-> 0], [i |-> 2, o |-> 0], [i |-> 2, o |-> 1]}
RunEvents ==
    [summary : RunTitles, location : {NoLocation, Location(<<"b7", "Houten">>)},
     dtstart : RunTimes, transp : BOOLEAN]
Calendars == SeqsUpTo(RunEvents, MaxCal)

NotYet == [done |-> FALSE]
Done(r) == [done |-> TRUE, r |-> r]

MergeIdle ==
    /\ file = NoFile
    /\ today = StartDay
    /\ newevents = <<>>
    /\ prev = NoFile
    /\ allevents = <<>>
    /\ prevday = StartDay
    /\ lastop = "none"
    /\ runs = 0
ParseIdle == event = <<>> /\ parsed = NotYet
BalanceIdle ==
    /\ balance = <<>>
    /\ applied = 0
    /\ slack = NoSlack
    /\ before = Zero
    /\ step = NoSlack
    /\ lastev = "none"
DestIdle == lastevents = <<>> /\ found = NotYet
RunIdle == cal = <<>> /\ pc = "idle" /\ err = "none"

----------------------------------------------------------------------------
(* One updatedata call on a drawn previous ledger *)

InitMerge ==
    /\ today = StartDay
    /\ \E ks \in PrevKeySeqs :
          file \in {NoFile, storedata(WithValue(ks, "v1"))}
    /\ newevents = <<>>
    /\ prev = NoFile
    /\ allevents = <<>>
    /\ prevday = StartDay
    /\ lastop = "none"
    /\ runs = 0
    /\ ParseIdle /\ BalanceIdle /\ DestIdle /\ RunIdle

\* lines 245-269: build the ledger, store it, return it
Update(ne, n) ==
    /\ today' = n
    /\ prevday' = today
    /\ allevents' = updatedata(file, ne, n, MaxAge)
    /\ file' = storedata(allevents')
    /\ prev' = file
    /\ newevents' = ne
    /\ runs' = runs + 1
    /\ UNCHANGED <<pvars, bvars, dvars, rvars>>

MergeOnce ==
    /\ runs = 0
    /\ \E ks \in NewKeySeqs, v \in Values : Update(WithValue(ks, v), today)
    /\ lastop' = "run"

NextMerge == MergeOnce

SpecMerge == InitMerge /\ [][NextMerge]_vars

----------------------------------------------------------------------------
(* A history of updatedata calls, from no file *)

InitHistory == MergeIdle /\ ParseIdle /\ BalanceIdle /\ DestIdle /\ RunIdle

\* a run on the same day or on the next, with any feed
RunFeed ==
    /\ runs < MaxRuns
    /\ \E ks \in FeedKeySeqs, v \in Values, d \in 0 .. 1 :
          Update(WithValue(ks, v), today + d)
    /\ lastop' = "run"

\* the same feed again, on the same day
RunAgain ==
    /\ runs >= 1
    /\ runs < MaxRuns
    /\ Update(newevents, today)
    /\ lastop' = "again"

NextHistory == RunFeed \/ RunAgain

SpecHistory == InitHistory /\ [][NextHistory]_vars

----------------------------------------------------------------------------
(* icsparse_event on a drawn title *)

InitParse ==
    /\ \E t \in Titles :
          event = [summary |-> t, location |-> Location(<<"Houten">>),
                   dtstart |-> [i |-> 0, o |-> 0], transp |-> FALSE]
    /\ parsed = NotYet
    /\ MergeIdle /\ BalanceIdle /\ DestIdle /\ RunIdle

Parse ==
    /\ ~parsed.done
    /\ parsed' = Done(icsparse_event(event))
    /\ UNCHANGED <<event, mvars, bvars, dvars, rvars>>

NextParse == Parse

SpecParse == InitParse /\ [][NextParse]_vars

----------------------------------------------------------------------------
(* carpool_account, event after event *)

InitBalance == MergeIdle /\ ParseIdle /\ BalanceIdle /\ DestIdle /\ RunIdle

Apply(v) ==
    /\ applied < MaxLedger
    /\ lastev # "TypeError"
    /\ LET r == AccountEvent(balance, v)
       IN  IF r.ok
           THEN /\ balance' = r.val
                /\ applied' = applied + 1
                /\ lastev' = v.type
                /\ slack' = AddMagnitudes(slack, Results(balance, v))
                /\ step' = AddMagnitudes(NoSlack, Results(balance, v))
                /\ before' = ExactSum(balance)
           ELSE /\ lastev' = r.err
                /\ UNCHANGED <<balance, applied, slack, before, step>>
    /\ UNCHANGED <<mvars, pvars, dvars, rvars>>

ApplyCarpool == \E v \in Carpools : Apply(v)
ApplyTransfer == \E v \in Transfers : Apply(v)

NextBalance == ApplyCarpool \/ ApplyTransfer

SpecBalance == InitBalance /\ [][NextBalance]_vars

----------------------------------------------------------------------------
(* find_dest on a drawn list of events *)

InitDest ==
    /\ lastevents \in SeqsUpTo(DestEvents, MaxEvents)
    /\ found = NotYet
    /\ MergeIdle /\ ParseIdle /\ BalanceIdle /\ RunIdle

FindDest ==
    /\ ~found.done
    /\ found' = Done(find_dest(lastevents))
    /\ UNCHANGED <<lastevents, mvars, pvars, bvars, rvars>>

NextDest == FindDest

SpecDest == InitDest /\ [][NextDest]_vars

----------------------------------------------------------------------------
(* A run of the script, lines 377-379 *)

\* a file that json.load rejects: cut short, or not the program's
Damaged(data) == [exists |-> TRUE, corrupt |-> TRUE, data |-> data]

\* a ledger of earlier runs: one event older than the window, one inside it
StoredEvent ==
    [type |-> "carpool", driver |-> <<"peter">>, passengers |-> << <<"martin">> >>,
     origin |-> "houten", tripcost |-> CFG_TRIPCOST]
StoredBefore ==
    { NoFile, Damaged(<<>>), storedata(<<>>),
      storedata(WithValue(<<[i |-> 0, o |-> 0], [i |-> 5, o |-> 0]>>,
                          StoredEvent)) }

InitRun ==
    /\ cal \in Calendars
    /\ pc = "normalize"
    /\ err = "none"
    /\ file \in StoredBefore
    /\ prev = file
    /\ today = StartDay
    /\ newevents = <<>>
    /\ allevents = <<>>
    /\ prevday = StartDay
    /\ lastop = "none"
    /\ runs = 0
    /\ ParseIdle /\ BalanceIdle /\ DestIdle

Fail(e) == pc' = "failed" /\ err' = e

\* line 377
Normalize ==
    /\ pc = "normalize"
    /\ LET r == normalize_ics(cal)
       IN  IF r.ok THEN newevents' = r.val /\ pc' = "load" /\ err' = err
           ELSE Fail(r.err) /\ newevents' = newevents
    /\ UNCHANGED <<file, today, prev, allevents, prevday, lastop, runs, cal,
                   pvars, bvars, dvars>>

\* lines 245-264: json.load raises on a damaged file
Load ==
    /\ pc = "load"
    /\ IF file.exists /\ file.corrupt
       THEN Fail("JSONDecodeError") /\ allevents' = allevents
       ELSE /\ allevents' = updatedata(file, newevents, today, MaxAge)
            /\ pc' = "open"
            /\ err' = err
    /\ UNCHANGED <<file, today, newevents, prev, prevday, lastop, runs, cal,
                   pvars, bvars, dvars>>

\* line 221: open(file, 'w') empties the file
OpenForWriting ==
    /\ pc = "open"
    /\ file' = Damaged(<<>>)
    /\ pc' = "dump"
    /\ UNCHANGED <<today, newevents, prev, allevents, prevday, lastop, runs,
                   cal, err, pvars, bvars, dvars>>

\* line 222: json.dump writes the ledger
Dump ==
    /\ pc = "dump"
    /\ file' = storedata(allevents)
    /\ pc' = "account"
    /\ runs' = runs + 1
    /\ UNCHANGED <<today, newevents, prev, allevents, prevday, lastop, cal,
                   err, pvars, bvars, dvars>>

\* line 222: a write fails (the disk is full, the process is killed) and
\* leaves the entries written so far
DumpFails ==
    /\ pc = "dump"
    /\ \E n \in 0 .. Len(allevents) :
          file' = Damaged(SubSeq(storedata(allevents).data, 1, n))
    /\ Fail("OSError")
    /\ UNCHANGED <<today, newevents, prev, allevents, prevday, lastop, runs,
                   cal, pvars, bvars, dvars>>

\* line 379
Account ==
    /\ pc = "account"
    /\ LET r == carpool_account(allevents)
       IN  IF r.ok THEN balance' = r.val /\ pc' = "done" /\ err' = err
           ELSE Fail(r.err) /\ balance' = balance
    /\ UNCHANGED <<mvars, cal, applied, slack, before, step, lastev, pvars, dvars>>

NextRun == Normalize \/ Load \/ OpenForWriting \/ Dump \/ DumpFails \/ Account

SpecRun == InitRun /\ [][NextRun]_vars

----------------------------------------------------------------------------
(* Claims about the merge *)

PrevLedger == loaddata(prev)
FileLedger == loaddata(file)

\* some event of the feed has the instant of k and a date inside the window
FeedRenews(k) ==
    \E j \in 1 .. Len(newevents) :
        /\ newevents[j].k.i = k.i
        /\ AgeDays(today, newevents[j].k) <= MaxAge

\* C2 as stated: with a previous ledger, its entries dated exactly maxage
\* days before today, and those dated one day earlier, are all in the merged
\* ledger, whatever the feed holds.
C2_BoundaryRetained ==
    (runs = 1 /\ prev.exists) =>
        \A j \in 1 .. Len(PrevLedger) :
            AgeDays(today, PrevLedger[j].k) \in {MaxAge, MaxAge + 1}
                => HasKey(allevents, PrevLedger[j].k)

\* C2 amended: with a previous ledger, an entry dated more than maxage days
\* before today is in the merged ledger whether or not the feed holds its
\* timestamp (with its stored value, unless the feed holds the same instant
\* with a date inside the window); an entry dated exactly maxage days before
\* today is not carried over: the merged ledger holds its timestamp only when
\* the feed supplies it.
C2_StrictlyOlderRetained ==
    (runs = 1 /\ prev.exists) =>
        \A j \in 1 .. Len(PrevLedger) :
            LET e == PrevLedger[j]
            IN  /\ AgeDays(today, e.k) > MaxAge =>
                    /\ HasKey(allevents, e.k)
                    /\ ~FeedRenews(e.k) => DictGet(allevents, e.k) = e.v
                /\ AgeDays(today, e.k) = MaxAge =>
                    (HasKey(allevents, e.k) <=> FeedRenews(e.k))

\* C2 witness: a merge over a ledger holding an entry aged exactly maxage and
\* one aged maxage + 1, neither of them in the feed.
C2_Witness ==
    /\ runs = 1
    /\ prev.exists
    /\ \E a, b \in 1 .. Len(PrevLedger) :
          /\ AgeDays(today, PrevLedger[a].k) = MaxAge
          /\ AgeDays(today, PrevLedger[b].k) = MaxAge + 1
          /\ ~HasKey(newevents, PrevLedger[a].k)
          /\ ~HasKey(newevents, PrevLedger[b].k)
          /\ ~HasKey(allevents, PrevLedger[a].k)
          /\ HasKey(allevents, PrevLedger[b].k)

\* a feed event dated before the window is not in the merged ledger, unless
\* the previous ledger held that timestamp, and then with the previous value
StaleDropped ==
    \A j \in 1 .. Len(newevents) :
        LET f == newevents[j]
        IN  (AgeDays(today, f.k) > MaxAge /\ HasKey(allevents, f.k)) =>
                /\ prev.exists
                /\ HasKey(PrevLedger, f.k)
                /\ DictGet(allevents, f.k) = DictGet(PrevLedger, f.k)

\* C3 as stated: in every updatedata call, with or without a previous ledger,
\* a feed event dated more than maxage days before today is dropped: it is
\* not added and it replaces no stored value.
C3_StaleAlwaysDropped == (runs = 1) => StaleDropped

\* C3 amended: when a previous ledger exists, a feed event dated more than
\* maxage days before today is dropped (not added, replacing no stored value);
\* when none exists the merged ledger is the feed as it is, stale events
\* included.
C3_StaleDroppedWhenFileExists ==
    (runs = 1) =>
        IF prev.exists THEN StaleDropped ELSE allevents = newevents

\* C3 witness: a merge whose feed holds a stale event at a timestamp the
\* previous ledger holds with another value, which is kept.
C3_Witness ==
    /\ runs = 1
    /\ prev.exists
    /\ \E j \in 1 .. Len(newevents) :
          /\ AgeDays(today, newevents[j].k) > MaxAge
          /\ HasKey(PrevLedger, newevents[j].k)
          /\ DictGet(PrevLedger, newevents[j].k) # newevents[j].v
          /\ DictGet(allevents, newevents[j].k) # newevents[j].v

\* ascending by timestamp
Ascending(d) == \A a, b \in 1 .. Len(d) : a < b => d[a].k.i < d[b].k.i

\* C5: the ledger updatedata returns and persists enumerates its entries in
\* ascending timestamp order, for every previous ledger and every feed.
C5_MergedAscending ==
    (runs = 1) => (Ascending(allevents) /\ Ascending(FileLedger))

\* C4: running updatedata with the same feed again, on the same day, leaves
\* the persisted ledger as the first run left it: same timestamps, same
\* values, same enumeration order.
C4_Idempotent == (lastop = "again") => file = prev

\* C10: an entry the persisted ledger held, dated more than maxage days before
\* the day of that run, is in every later persisted ledger with the same value.
C10_HistoryKept ==
    (runs >= 2) =>
        \A j \in 1 .. Len(PrevLedger) :
            LET e == PrevLedger[j]
            IN  AgeDays(prevday, e.k) > MaxAge =>
                    /\ HasKey(FileLedger, e.k)
                    /\ DictGet(FileLedger, e.k) = e.v

----------------------------------------------------------------------------
(* Claims about the balance *)

\* C7 as stated: after each event carpool_account applies, carpools and
\* transfers with a numeric amount alike, the balances sum to zero (whether
\* the sum is taken exactly or added up in floating point).
C7_ZeroSum == ExactSum(balance) = Zero \/ PySum(balance) = Zero

\* C7 amended: after each event the balances sum to zero within the rounding
\* of binary floating point, not exactly: the sum is at most 2^-53 times the
\* total of the magnitudes of the results of all the floating-point
\* operations carpool_account has performed (the same sum added up in
\* floating point: the results of its own additions included); and one
\* event, a carpool or a transfer with a numeric amount, changes the sum by
\* at most 2^-53 times the total magnitude of the results it computes.
C7_ZeroSumUpToRounding ==
    /\ WithinRounding(ExactSum(balance), slack)
    /\ WithinRounding(PySum(balance),
                      AddMagnitudes(slack, PartialSums(balance)))
    /\ WithinRounding(NumAdd(ExactSum(balance), NumNeg(before)), step)

\* C7 witness: after a carpool has left a rounding remainder, a transfer with
\* a numeric amount has changed the sum of the balances, which is not zero.
C7_Witness ==
    /\ applied = 2
    /\ lastev = "transfer"
    /\ ExactSum(balance) # before
    /\ before # Zero
    /\ ExactSum(balance) # Zero
    /\ PySum(balance) # Zero

----------------------------------------------------------------------------
(* Claims about find_dest *)

\* the driver of the event has exactly these two events on its day
OnlyPair(res, a, b) ==
    /\ a < b
    /\ res[a].ev.driver = res[b].ev.driver
    /\ Date(res[a].ev.time) = Date(res[b].ev.time)
    /\ \A c \in 1 .. Len(res) :
          (res[c].ev.driver = res[a].ev.driver
              /\ Date(res[c].ev.time) = Date(res[a].ev.time)) => c \in {a, b}

\* C6: whenever a driver has exactly two events on a local calendar date,
\* find_dest gives the earlier one the later one's origin as destination and
\* the later one the earlier one's origin.
C6_PairsMatched ==
    (found.done /\ found.r.ok) =>
        LET res == found.r.val
        IN  \A a, b \in 1 .. Len(res) :
                OnlyPair(res, a, b) =>
                    /\ res[a].appended =
                           << <<res[a].ev.origin, res[b].ev.origin>> >>
                    /\ res[b].appended =
                           << <<res[b].ev.origin, res[a].ev.origin>> >>

----------------------------------------------------------------------------
(* Claims about the parser *)

\* the first word of the title holds "transfer" (and not "carpool", which
\* icsparse_event looks for first)
TransferTitle(t) ==
    LET first == StrSplit(t, <<>>)
    IN  /\ first # <<>>
        /\ Contains(LowerAll(first[1]), "transfer")
        /\ ~Contains(LowerAll(first[1]), "carpool")

\* the tokens after the one that holds the magic word
AfterMagic(t) ==
    LET words == icsparse_event_topic_split(t, "transfer")
        m == CHOOSE j \in 1 .. Len(words) :
                 /\ Contains(words[j], "transfer")
                 /\ \A h \in 1 .. j - 1 : ~Contains(words[h], "transfer")
    IN  SubSeq(words, m + 1, Len(words))

IsNumber(tok) == tok # <<>> /\ \A j \in 1 .. Len(tok) : IsDigits(tok[j])

\* the value of a token made of the digits "10", "1010", ...
RECURSIVE NumberOf(_)
NumberOf(tok) ==
    IF tok = <<>> THEN 0
    ELSE NumberOf(SubSeq(tok, 1, Len(tok) - 1)) * 100 + 10

\* C8: a transfer title yields a record exactly when three tokens follow the
\* magic word and the third is a number, the record's amount being that
\* number; any other transfer title fails with the malformed-transfer error.
C8_TransferAmountNumeric ==
    (parsed.done /\ TransferTitle(event.summary)) =>
        LET after == AfterMagic(event.summary)
        IN  IF Len(after) = 3 /\ IsNumber(after[3])
            THEN /\ parsed.r.ok
                 /\ parsed.r.val.type = "transfer"
                 /\ parsed.r.val.amount = PyNum(NumberOf(after[3]))
            ELSE /\ ~parsed.r.ok
                 /\ parsed.r.err = "ValueError"

----------------------------------------------------------------------------
(* Claims about a run of the script *)

ParseErrors == {"ValueError", "IndexError", "AttributeError"}

\* the mapping of a walk that leaves out the events whose parse fails
RECURSIVE FailSoft(_, _)
FailSoft(events, walk) ==
    IF walk = <<>> THEN events
    ELSE LET c == Head(walk)
         IN  IF c.transp \/ ~icsparse_event(c).ok
             THEN FailSoft(events, Tail(walk))
             ELSE FailSoft(DictSet(events, c.dtstart, icsparse_event(c).val),
                           Tail(walk))

\* C1: normalize_ics completes whatever the titles are, and its mapping holds
\* every event that parses and none that fails.
C1_FailSoft ==
    (pc # "normalize") =>
        /\ ~(pc = "failed" /\ err \in ParseErrors)
        /\ newevents = FailSoft(<<>>, cal)

\* C9: a run either completes, and the persisted ledger is the merged one,
\* or fails, and the persisted ledger is what it was before the run.
C9_AtomicRun ==
    /\ pc = "done" => file = storedata(allevents)
    /\ pc = "failed" => file = prev

====
